---------------------------- MODULE Spec2Model ----------------------------
(***************************************************************************)
(* The two plotting scripts of fec-rs-codec as one state machine.          *)
(*                                                                         *)
(*   python/plot_rs_ber_bler.py   Reed-Solomon BER chart, then BLER chart  *)
(*   python/plot_nsc_ber.py       convolutional (NSC) BER chart            *)
(*                                                                         *)
(* A script is straight-line code; pc is the statement group about to run. *)
(* An uncaught Python exception ends the process: pc = "failed".           *)
(* Error names are Python's: FileNotFoundError is the design document's    *)
(* MissingInputError, KeyError its SchemaError, OSError its IOError.       *)
(* Strings are TLA+ strings; SubSeq, Len and \o act on them character by   *)
(* character.  plt.show() and the rcParams/styling calls touch none of the *)
(* state below and are left out.                                           *)
(***************************************************************************)
EXTENDS Integers, Sequences, FiniteSets, TLC

VARIABLES
    pipeline,   \* which script runs: "rs" or "nsc"
    listing,    \* os.listdir("results"), in the order the OS returns it
    header,     \* path of a results file -> the column names of its CSV header
    images,     \* what "images" is on disk: "absent", "dir" or "file"
    disk,       \* artifact path -> content (Absent when no such file)
    pc,         \* statement group about to run, or "done" / "failed"
    run,        \* number of this invocation of the script (1 = first)
    prev,       \* artifact paths present when the previous invocation ended
    error,      \* the uncaught exception, NoError while there is none
    ber_file,   \* plot_rs_ber_bler.py: ber_file
    params,     \* plot_rs_ber_bler.py: the globals (m, N, K)
    bler_file,  \* plot_rs_ber_bler.py: bler_file
    series,     \* the column names read out of the data frame of this chart
    figures,    \* the pyplot figures created so far, the last one current
    trace       \* the statement groups this invocation has completed

env    == <<pipeline, listing, header>>
fs     == <<images, disk>>
locals == <<ber_file, params, bler_file, series, figures>>
vars   == <<pipeline, listing, header, images, disk, pc, run, prev, error,
            ber_file, params, bler_file, series, figures, trace>>

---------------------------------------------------------------------------
(* Bounds of the model.                                                    *)

MaxEntries == 2     \* entries in results/
MaxRuns == 2        \* invocations of a script in a row
MaxSegs == 4        \* name segments of a file name given to extract_params

---------------------------------------------------------------------------
(* Python strings.                                                         *)

Char(s, i) == SubSeq(s, i, i)

\* str.startswith
StartsWith(s, p) == Len(s) >= Len(p) /\ SubSeq(s, 1, Len(p)) = p

IsSubstring(p, s) ==
    \E i \in 1..(Len(s) - Len(p) + 1) : SubSeq(s, i, i + Len(p) - 1) = p

Digits == {"0", "1", "2", "3", "4", "5", "6", "7", "8", "9"}

DigitValue(c) ==
    CASE c = "0" -> 0 [] c = "1" -> 1 [] c = "2" -> 2 [] c = "3" -> 3
      [] c = "4" -> 4 [] c = "5" -> 5 [] c = "6" -> 6 [] c = "7" -> 7
      [] c = "8" -> 8 [] c = "9" -> 9

\* int(s) for a string of decimal digits: leading zeros carry no value.
RECURSIVE int(_)
int(s) ==
    IF s = "" THEN 0
    ELSE 10 * int(SubSeq(s, 1, Len(s) - 1)) + DigitValue(Char(s, Len(s)))

\* The value extract_params returns in place of each absent parameter.
\* Python's None; parsed parameters are never negative.
None == -1

NoneTriple == <<None, None, None>>

\* A replacement field {v} of an f-string.
Format(v) == IF v = None THEN "None" ELSE ToString(v)

\* os.path.join
join(dir, name) == dir \o "/" \o name

---------------------------------------------------------------------------
(* re.search(r"m(\d+)_N(\d+)_K(\d+)", filename)                            *)

\* Length of the longest run of digits of s that starts at position i.
RECURSIVE DigitRun(_, _)
DigitRun(s, i) ==
    IF i <= Len(s) /\ Char(s, i) \in Digits THEN 1 + DigitRun(s, i + 1) ELSE 0

Literal(s, i, lit) ==
    i + Len(lit) - 1 <= Len(s) /\ SubSeq(s, i, i + Len(lit) - 1) = lit

NoMatch == <<>>

\* The match anchored at position i, as its three groups, or NoMatch.  \d+ is
\* greedy; giving digits back never helps, since what follows a group is "_"
\* or the end of the pattern.
MatchAt(s, i) ==
    LET a  == DigitRun(s, i + 1)
        j  == i + 1 + a
        b  == DigitRun(s, j + 2)
        k  == j + 2 + b
        c  == DigitRun(s, k + 2)
    IN  IF /\ Literal(s, i, "m") /\ a >= 1
           /\ Literal(s, j, "_N") /\ b >= 1
           /\ Literal(s, k, "_K") /\ c >= 1
        THEN <<SubSeq(s, i + 1, j - 1), SubSeq(s, j + 2, k - 1),
               SubSeq(s, k + 2, k + 1 + c)>>
        ELSE NoMatch

MatchStarts(s) == {i \in 1..Len(s) : MatchAt(s, i) # NoMatch}

re_search_last(s) ==
    IF MatchStarts(s) = {} THEN NoMatch
    ELSE MatchAt(s, CHOOSE i \in MatchStarts(s) : \A j \in MatchStarts(s) : j <= i)

\* re.search scans left to right: the leftmost match wins.
re_search(s) ==
    IF MatchStarts(s) = {} THEN NoMatch
    ELSE MatchAt(s, CHOOSE i \in MatchStarts(s) : \A j \in MatchStarts(s) : i <= j)

extract_params(filename) ==
    LET match == re_search(filename)
    IN  IF match # NoMatch
        THEN <<int(match[1]), int(match[2]), int(match[3])>>
        ELSE NoneTriple

---------------------------------------------------------------------------
(* The files the scripts read and write.                                   *)

\* Names a simulation run leaves in results/.
Prefixes == {"rs_ber", "rs_bler"}
Suffixes == {"_m8_N255_K223.csv", "_m4_N15_K11.csv", ".csv"}
Names == {p \o x : p \in Prefixes, x \in Suffixes} \cup {"nsc_ber_data.csv"}

NscPath == "results/nsc_ber_data.csv"

BerColumns  == {"EbN0_dB", "BER_RS", "BER_bpsk"}
BlerColumns == {"EbN0_dB", "BLER_RS", "BLER_bpsk"}
NscColumns  == {"EbN0_dB", "BER_soft", "BER_hard", "BER_bpsk"}
AllColumns  == BerColumns \cup BlerColumns \cup NscColumns

\* The columns the simulator writes into a results file of that name.
FamilyColumns(name) ==
    IF StartsWith(name, "rs_bler") THEN BlerColumns
    ELSE IF StartsWith(name, "rs_ber") THEN BerColumns
    ELSE NscColumns

Range(f) == {f[i] : i \in DOMAIN f}

Listings ==
    {l \in UNION {[1..n -> Names] : n \in 0..MaxEntries} :
        \A i, j \in DOMAIN l : l[i] = l[j] => i = j}

BerPng  == "images/rs_ber_graph.png"
BerSvg  == "images/rs_ber_graph.svg"
BlerPng == "images/rs_bler_graph.png"
BlerSvg == "images/rs_bler_graph.svg"
NscPng  == "images/nsc_ber_graph.png"
NscSvg  == "images/nsc_ber_graph.svg"

RsArtifacts  == {BerPng, BerSvg, BlerPng, BlerSvg}
NscArtifacts == {NscPng, NscSvg}
Paths == RsArtifacts \cup NscArtifacts

Absent == <<>>
\* A file left in images/ by something earlier than the first invocation.
Stale == <<0, "stale">>
\* What a write that failed half way leaves at its path.
Partial(r) == <<r, "partial">>
\* A completely written artifact: the invocation that wrote it and the figure.
Content(r, fig) == <<r, "complete", fig>>

Existing(d) == {p \in Paths : d[p] # Absent}
WrittenBy(d, r) == {p \in Paths : Len(d[p]) = 3 /\ d[p][1] = r}

NoError == [at |-> "", kind |-> "", msg |-> ""]
Unbound == <<>>

---------------------------------------------------------------------------
(* Control flow: the order of the statement groups of each script.         *)

SuccBlerFirst(step) ==
    CASE step = "makedirs" /\ pipeline = "rs" -> "bler_locate"
      [] step = "makedirs" /\ pipeline = "nsc" -> "nsc_load"
      [] step = "bler_locate"  -> "bler_load"
      [] step = "bler_load"    -> "bler_render"
      [] step = "bler_render"  -> "bler_png"
      [] step = "bler_png"     -> "bler_svg"
      [] step = "bler_svg"     -> "ber_locate"
      [] step = "ber_locate"   -> "extract"
      [] step = "extract"      -> "ber_load"
      [] step = "ber_load"     -> "ber_render"
      [] step = "ber_render"   -> "ber_png"
      [] step = "ber_png"      -> "ber_svg"
      [] step = "ber_svg"      -> "done"
      [] step = "nsc_load"     -> "nsc_render"
      [] step = "nsc_render"   -> "nsc_png"
      [] step = "nsc_png"      -> "nsc_svg"
      [] step = "nsc_svg"      -> "done"

SuccSvgFirst(step) ==
    CASE step = "makedirs" /\ pipeline = "rs" -> "ber_locate"
      [] step = "makedirs" /\ pipeline = "nsc" -> "nsc_load"
      [] step = "ber_locate"   -> "extract"
      [] step = "extract"      -> "ber_load"
      [] step = "ber_load"     -> "ber_render"
      [] step = "ber_render"   -> "ber_svg"
      [] step = "ber_svg"      -> "ber_png"
      [] step = "ber_png"      -> "bler_locate"
      [] step = "bler_locate"  -> "bler_load"
      [] step = "bler_load"    -> "bler_render"
      [] step = "bler_render"  -> "bler_svg"
      [] step = "bler_svg"     -> "bler_png"
      [] step = "bler_png"     -> "done"
      [] step = "nsc_load"     -> "nsc_render"
      [] step = "nsc_render"   -> "nsc_svg"
      [] step = "nsc_svg"      -> "nsc_png"
      [] step = "nsc_png"      -> "done"

\* The statement group that follows `step` in the script being run.
Succ(step) ==
    CASE step = "makedirs" /\ pipeline = "rs" -> "ber_locate"
      [] step = "makedirs" /\ pipeline = "nsc" -> "nsc_load"
      [] step = "ber_locate"   -> "extract"
      [] step = "extract"      -> "ber_load"
      [] step = "ber_load"     -> "ber_render"
      [] step = "ber_render"   -> "ber_png"
      [] step = "ber_png"      -> "ber_svg"
      [] step = "ber_svg"      -> "bler_locate"
      [] step = "bler_locate"  -> "bler_load"
      [] step = "bler_load"    -> "bler_render"
      [] step = "bler_render"  -> "bler_png"
      [] step = "bler_png"     -> "bler_svg"
      [] step = "bler_svg"     -> "done"
      [] step = "nsc_load"     -> "nsc_render"
      [] step = "nsc_render"   -> "nsc_png"
      [] step = "nsc_png"      -> "nsc_svg"
      [] step = "nsc_svg"      -> "done"

\* The statement group pc completes and control moves on.
Advance == /\ pc' = Succ(pc)
           /\ trace' = Append(trace, pc)
           /\ UNCHANGED <<error, run, prev>>

RaiseAndCleanUp(kind, msg) ==
    /\ pc' = "failed"
    /\ error' = [at |-> pc, kind |-> kind, msg |-> msg]
    /\ disk' = [p \in Paths |-> IF p \in WrittenBy(disk, run) THEN Absent ELSE disk[p]]
    /\ UNCHANGED <<env, images, locals, run, prev, trace>>

\* An exception nothing catches: the interpreter prints it and exits.
Raise(kind, msg) ==
    /\ pc' = "failed"
    /\ error' = [at |-> pc, kind |-> kind, msg |-> msg]
    /\ UNCHANGED <<env, fs, locals, run, prev, trace>>

---------------------------------------------------------------------------
(* The statements of the scripts.                                          *)

MakedirsNoExistOk ==
    /\ pc = "makedirs"
    /\ IF images # "absent"
       THEN Raise("FileExistsError", "images")
       ELSE /\ images' = "dir"
            /\ Advance
            /\ UNCHANGED <<env, disk, locals>>

\* os.makedirs("images", exist_ok=True): an existing directory is accepted, an
\* existing file of that name is not.
Makedirs ==
    /\ pc = "makedirs"
    /\ IF images = "file"
       THEN Raise("FileExistsError", "images")
       ELSE /\ images' = "dir"
            /\ Advance
            /\ UNCHANGED <<env, disk, locals>>

\* [f for f in os.listdir("results") if f.startswith(prefix)]
Matching(prefix) == SelectSeq(listing, LAMBDA f : StartsWith(f, prefix))

SelectLast(files) == files[Len(files)]

\* ber_files[0], bler_files[0]
Select(files) == files[1]

LocateBer ==
    /\ pc = "ber_locate"
    /\ LET ber_files == Matching("rs_ber")
       IN  IF Len(ber_files) = 0
           THEN Raise("FileNotFoundError", "No rs_ber_m*_N*_K*.csv found in results/")
           ELSE /\ ber_file' = join("results", Select(ber_files))
                /\ Advance
                /\ UNCHANGED <<env, fs, params, bler_file, series, figures>>

\* m, N, K = extract_params(ber_file)
ExtractParams ==
    /\ pc = "extract"
    /\ params' = extract_params(ber_file)
    /\ Advance
    /\ UNCHANGED <<env, fs, ber_file, bler_file, series, figures>>

BerOrder  == <<"EbN0_dB", "BER_RS", "BER_bpsk">>
BlerOrder == <<"EbN0_dB", "BLER_RS", "BLER_bpsk">>
NscOrder  == <<"EbN0_dB", "BER_soft", "BER_hard", "BER_bpsk">>

NoColumnCheck(path, required) == <<>>

\* The columns df[...] is asked for, in the order of the accesses, that the
\* table read from path does not have.
MissingColumns(path, required) ==
    SelectSeq(required, LAMBDA c : c \notin header[path])

\* pd.read_csv(path) and the column accesses that follow it.
Load(path, required) ==
    IF path \notin DOMAIN header
    THEN Raise("FileNotFoundError", path)
    ELSE IF MissingColumns(path, required) # <<>>
    THEN Raise("KeyError", MissingColumns(path, required)[1])
    ELSE /\ series' = Range(required)
         /\ Advance
         /\ UNCHANGED <<env, fs, ber_file, params, bler_file, figures>>

LoadBer == pc = "ber_load" /\ Load(ber_file, BerOrder)

\* f"RS({N},{K}) coded BPSK"
RsLabel(p) == "RS(" \o Format(p[2]) \o "," \o Format(p[3]) \o ") coded BPSK"

\* f"m={m}"
RsAnnotation(p) == "m=" \o Format(p[1])

\* plt.figure, the semilogy calls with their labels, plt.annotate.
Render(fig) ==
    /\ figures' = Append(figures, fig)
    /\ Advance
    /\ UNCHANGED <<env, fs, ber_file, params, bler_file, series>>

RenderBer ==
    /\ pc = "ber_render"
    /\ Render([chart |-> "ber",
               labels |-> <<RsLabel(params), "Uncoded BPSK (theory)">>,
               annotations |-> <<RsAnnotation(params)>>])

\* plt.savefig(path, ...) of the current figure.  The write can fail before the
\* file is opened (nothing changes) or after (a truncated file is left).
Savefig(path) ==
    IF images # "dir"
    THEN Raise("FileNotFoundError", path)
    ELSE \/ /\ disk' = [disk EXCEPT ![path] = Content(run, figures[Len(figures)])]
            /\ Advance
            /\ UNCHANGED <<env, images, locals>>
         \/ Raise("OSError", path)
         \/ /\ pc' = "failed"
            /\ error' = [at |-> pc, kind |-> "OSError", msg |-> path]
            /\ disk' = [disk EXCEPT ![path] = Partial(run)]
            /\ UNCHANGED <<env, images, locals, run, prev, trace>>

SaveBerPng == pc = "ber_png" /\ Savefig(BerPng)
SaveBerSvg == pc = "ber_svg" /\ Savefig(BerSvg)

LocateBler ==
    /\ pc = "bler_locate"
    /\ LET bler_files == Matching("rs_bler")
       IN  IF Len(bler_files) = 0
           THEN Raise("FileNotFoundError", "No rs_bler_m*_N*_K*.csv found in results/")
           ELSE /\ bler_file' = join("results", Select(bler_files))
                /\ Advance
                /\ UNCHANGED <<env, fs, ber_file, params, series, figures>>

LoadBler == pc = "bler_load" /\ Load(bler_file, BlerOrder)

ParamsOfBlerFile == extract_params(bler_file)

\* The N, K and m the BLER chart interpolates: the globals set at line 46.
BlerParams == params

RenderBler ==
    /\ pc = "bler_render"
    /\ Render([chart |-> "bler",
               labels |-> <<RsLabel(BlerParams), "Uncoded BPSK (theory)">>,
               annotations |-> <<RsAnnotation(BlerParams)>>])

SaveBlerPng == pc = "bler_png" /\ Savefig(BlerPng)
SaveBlerSvg == pc = "bler_svg" /\ Savefig(BlerSvg)

LoadNsc == pc = "nsc_load" /\ Load(NscPath, NscOrder)

RenderNsc ==
    /\ pc = "nsc_render"
    /\ Render([chart |-> "nsc",
               labels |-> <<"Soft-decision Viterbi", "Hard-decision Viterbi",
                            "Uncoded BPSK (theory)">>,
               annotations |-> <<>>])

SaveNscPng == pc = "nsc_png" /\ Savefig(NscPng)
SaveNscSvg == pc = "nsc_svg" /\ Savefig(NscSvg)

\* The user starts the same script again after it ended normally; a new
\* process has none of the previous one's variables.
Rerun ==
    /\ pc = "done"
    /\ run < MaxRuns
    /\ run' = run + 1
    /\ prev' = Existing(disk)
    /\ pc' = "makedirs"
    /\ error' = NoError
    /\ ber_file' = ""
    /\ params' = Unbound
    /\ bler_file' = ""
    /\ series' = {}
    /\ figures' = <<>>
    /\ trace' = <<>>
    /\ UNCHANGED <<env, fs>>

---------------------------------------------------------------------------
(* The scripts from their first statement.                                 *)

Init ==
    /\ pipeline \in {"rs", "nsc"}
    /\ listing \in Listings
    /\ \E d \in AllColumns \cup {"none"} :
          header = [f \in {join("results", n) : n \in Range(listing)} |->
                       FamilyColumns(SubSeq(f, 9, Len(f))) \ {d}]
    /\ images \in {"absent", "dir", "file"}
    /\ disk \in {[p \in Paths |-> Absent]} \cup
                (IF images = "dir" THEN {[p \in Paths |-> Stale]} ELSE {})
    /\ pc = "makedirs"
    /\ run = 1
    /\ prev = {}
    /\ error = NoError
    /\ ber_file = ""
    /\ params = Unbound
    /\ bler_file = ""
    /\ series = {}
    /\ figures = <<>>
    /\ trace = <<>>

Next ==
    \/ Makedirs
    \/ LocateBer
    \/ ExtractParams
    \/ LoadBer
    \/ RenderBer
    \/ SaveBerPng
    \/ SaveBerSvg
    \/ LocateBler
    \/ LoadBler
    \/ RenderBler
    \/ SaveBlerPng
    \/ SaveBlerSvg
    \/ LoadNsc
    \/ RenderNsc
    \/ SaveNscPng
    \/ SaveNscSvg
    \/ Rerun

Spec == Init /\ [][Next]_vars

---------------------------------------------------------------------------
(* extract_params on its own: the script at line 46, for every name the    *)
(* locator can have selected out of a one-entry results/.                  *)

Segments == {"m8_N255", "_K223", "m08_N15", "_K011", "m4", "_N", "7", ".csv"}

RECURSIVE Concat(_)
Concat(ss) == IF ss = <<>> THEN "" ELSE Head(ss) \o Concat(Tail(ss))

ExtractNames ==
    {"rs_ber_" \o Concat(ss) : ss \in UNION {[1..n -> Segments] : n \in 0..MaxSegs}}

InitExtract ==
    /\ pipeline = "rs"
    /\ \E name \in ExtractNames :
          /\ listing = <<name>>
          /\ header = [f \in {join("results", name)} |-> BerColumns]
          /\ ber_file = join("results", name)
    /\ images = "dir"
    /\ disk = [p \in Paths |-> Absent]
    /\ pc = "extract"
    /\ run = 1
    /\ prev = {}
    /\ error = NoError
    /\ params = Unbound
    /\ bler_file = ""
    /\ series = {}
    /\ figures = <<>>
    /\ trace = <<"makedirs", "ber_locate">>

SpecExtract == InitExtract /\ [][ExtractParams]_vars

---------------------------------------------------------------------------
(* Vocabulary of the properties.                                           *)

Done(step) == step \in Range(trace)

FailedAt(step) == pc = "failed" /\ error.at = step

\* Paths this invocation has written to, completely or not.
Touched == {p \in Paths : disk[p] # Absent /\ disk[p][1] = run}

\* Positions of the directory listing whose entry starts with prefix.
Hits(prefix) == {i \in DOMAIN listing : StartsWith(listing[i], prefix)}

HasFigure(chart) == \E i \in DOMAIN figures : figures[i].chart = chart

FigureOf(chart) == figures[CHOOSE i \in DOMAIN figures : figures[i].chart = chart]

IsPrefix(s, t) == Len(s) <= Len(t) /\ \A i \in DOMAIN s : s[i] = t[i]

---------------------------------------------------------------------------
(* C1  Result Locator                                                      *)

LocatorCases ==
    {<<"ber_locate", "rs_ber", ber_file>>, <<"bler_locate", "rs_bler", bler_file>>}

\* C1: for each prefix (rs_ber, rs_bler), once the locate step has run, the file
\* selected is results/<the first entry of the listing, in listing order, that
\* starts with the prefix>, and exactly that one; the step fails if and only if
\* no entry starts with the prefix, and then with a FileNotFoundError
\* (MissingInputError) whose message names the expected pattern.
C1_LocatorSelectsFirstMatch ==
    pipeline = "rs" =>
        \A c \in LocatorCases :
            /\ Done(c[1]) =>
                  /\ Hits(c[2]) # {}
                  /\ \E i \in Hits(c[2]) :
                        /\ \A j \in Hits(c[2]) : i <= j
                        /\ c[3] = "results/" \o listing[i]
            /\ FailedAt(c[1]) =>
                  /\ Hits(c[2]) = {}
                  /\ error.kind = "FileNotFoundError"
                  /\ IsSubstring(c[2], error.msg)
                  /\ IsSubstring("_m*_N*_K*.csv", error.msg)
            /\ Hits(c[2]) = {} => ~Done(c[1])

\* Two entries start with rs_ber and the BER locate step has selected one.
C1_Witness ==
    /\ Done("ber_locate")
    /\ \E i, j \in Hits("rs_ber") : i < j

---------------------------------------------------------------------------
(* C2  extract_params                                                      *)

AllDigitsAt(s, i, n) ==
    /\ n >= 1
    /\ i + n - 1 <= Len(s)
    /\ \A k \in i..(i + n - 1) : Char(s, k) \in Digits

\* n digits at position i, followed by the literal lit.
GroupAt(s, i, n, lit) == AllDigitsAt(s, i, n) /\ Literal(s, i + n, lit)

\* n digits at position i, followed by no further digit.
LastGroupAt(s, i, n) ==
    AllDigitsAt(s, i, n) /\ (i + n > Len(s) \/ Char(s, i + n) \notin Digits)

\* Some text m<digits>_N<digits>_K<digits> starts at position i of s.
PatternAt(s, i) ==
    /\ Literal(s, i, "m")
    /\ \E a \in 1..Len(s) :
          /\ GroupAt(s, i + 1, a, "_N")
          /\ \E b \in 1..Len(s) :
                /\ GroupAt(s, i + a + 3, b, "_K")
                /\ \E c \in 1..Len(s) : AllDigitsAt(s, i + a + b + 5, c)

\* A digit string without its redundant leading zeros.
RECURSIVE StripZeros(_)
StripZeros(d) ==
    IF Len(d) > 1 /\ Char(d, 1) = "0" THEN StripZeros(SubSeq(d, 2, Len(d))) ELSE d

PatternText(p) ==
    "m" \o ToString(p[1]) \o "_N" \o ToString(p[2]) \o "_K" \o ToString(p[3])

---------------------------------------------------------------------------
(* C3, C4  Legend label and annotation of the Reed-Solomon charts          *)

RsFigures == {i \in DOMAIN figures : figures[i].chart \in {"ber", "bler"}}

\* C3: on the BER and on the BLER chart, the coded series is labelled
\* "RS(N,K) coded BPSK" with the parsed N and K when the parameters were
\* extracted, and with a generic label, one that interpolates no absent value,
\* when they are absent.
C3_LabelGenericWhenAbsent ==
    \A i \in RsFigures :
        IF params # NoneTriple
        THEN figures[i].labels[1] =
                "RS(" \o ToString(params[2]) \o "," \o ToString(params[3])
                      \o ") coded BPSK"
        ELSE ~IsSubstring("None", figures[i].labels[1])

\* C4: on every chart of the Reed-Solomon script an annotation "m=<m>" is drawn
\* if and only if the parameters were extracted; none is drawn when
\* extract_params returned the absent sentinel.
C4_AnnotationOnlyWhenExtracted ==
    \A i \in RsFigures :
        IF params # NoneTriple
        THEN figures[i].annotations = <<"m=" \o ToString(params[1])>>
        ELSE figures[i].annotations = <<>>

---------------------------------------------------------------------------
(* C5  No rs_bler entry in results/                                        *)

\* C5 (as amended): when results/ has no entry with prefix rs_bler, the
\* Reed-Solomon script never loads or renders the BLER chart and writes neither
\* rs_bler_graph.png nor rs_bler_graph.svg; a run that gets through the BER chart
\* aborts at the BLER locate step with FileNotFoundError (MissingInputError)
\* naming the rs_bler pattern, after the BER chart was rendered and both of its
\* artifacts were written.
C5_NoBlerInputAbortsAfterBerChart ==
    (pipeline = "rs" /\ Hits("rs_bler") = {}) =>
        /\ ~HasFigure("bler")
        /\ {BlerPng, BlerSvg} \cap Touched = {}
        /\ pc \notin {"bler_load", "bler_render", "bler_png", "bler_svg", "done"}
        /\ (pc = "bler_locate" \/ FailedAt("bler_locate")) =>
              /\ HasFigure("ber")
              /\ {BerPng, BerSvg} \subseteq WrittenBy(disk, run)
        /\ FailedAt("bler_locate") =>
              /\ error.kind = "FileNotFoundError"
              /\ IsSubstring("rs_bler", error.msg)

\* The run has aborted at the BLER locate step for want of an rs_bler entry.
C5_Witness ==
    /\ pipeline = "rs"
    /\ Hits("rs_bler") = {}
    /\ FailedAt("bler_locate")

\* C5 as stated: the abort for the missing rs_bler input comes before any chart
\* is rendered.
C5_Original ==
    (pipeline = "rs" /\ Hits("rs_bler") = {} /\ FailedAt("bler_locate")) =>
        /\ error.kind = "FileNotFoundError"
        /\ figures = <<>>
        /\ {BlerPng, BlerSvg} \cap Touched = {}

---------------------------------------------------------------------------
(* C6  No recovery, no cleanup                                             *)

\* The artifact a statement group writes.
Target(step) ==
    CASE step = "ber_png"  -> {BerPng}
      [] step = "ber_svg"  -> {BerSvg}
      [] step = "bler_png" -> {BlerPng}
      [] step = "bler_svg" -> {BlerSvg}
      [] step = "nsc_png"  -> {NscPng}
      [] step = "nsc_svg"  -> {NscSvg}
      [] OTHER -> {}

\* C6: a failed run is terminal, no step is taken from it and nothing is
\* retried; and the step that fails changes nothing on disk except, at most,
\* the one file it was writing: every artifact written before the failure
\* keeps its content, and so does images/.
C6_NoRecoveryNoCleanup ==
    [][/\ pc # "failed"
       /\ pc' = "failed" =>
             /\ images' = images
             /\ \A p \in Paths \ Target(pc) : disk'[p] = disk[p]
             /\ WrittenBy(disk, run) \ Target(pc) \subseteq WrittenBy(disk', run')
             /\ error'.at = pc
             /\ error'.kind # ""]_vars

\* The BLER part of a run failed and the BER artifacts of that run are on disk.
C6_Witness ==
    /\ pc = "failed"
    /\ error.at \in {"bler_locate", "bler_load", "bler_png", "bler_svg"}
    /\ {BerPng, BerSvg} \subseteq WrittenBy(disk, run)

---------------------------------------------------------------------------
(* C7  Series Loader: a required column is absent                          *)

Charts == IF pipeline = "rs" THEN {"ber", "bler"} ELSE {"nsc"}

FileOf(chart) ==
    CASE chart = "ber" -> ber_file [] chart = "bler" -> bler_file
      [] chart = "nsc" -> "results/nsc_ber_data.csv"

RequiredOf(chart) ==
    CASE chart = "ber"  -> {"EbN0_dB", "BER_RS", "BER_bpsk"}
      [] chart = "bler" -> {"EbN0_dB", "BLER_RS", "BLER_bpsk"}
      [] chart = "nsc"  -> {"EbN0_dB", "BER_soft", "BER_hard", "BER_bpsk"}

ArtifactsOf(chart) ==
    CASE chart = "ber"  -> {BerPng, BerSvg}
      [] chart = "bler" -> {BlerPng, BlerSvg}
      [] chart = "nsc"  -> {NscPng, NscSvg}

LoadStepOf(chart) ==
    CASE chart = "ber" -> "ber_load" [] chart = "bler" -> "bler_load"
      [] chart = "nsc" -> "nsc_load"

\* The steps of a run up to the load step of the chart, that step included.
UpToLoad(chart) ==
    CASE chart = "ber"  -> {"makedirs", "ber_locate", "extract", "ber_load"}
      [] chart = "bler" -> {"makedirs", "ber_locate", "extract", "ber_load",
                            "ber_render", "ber_png", "ber_svg", "bler_locate",
                            "bler_load"}
      [] chart = "nsc"  -> {"makedirs", "nsc_load"}

\* C7: if the table selected for a chart lacks a required column of that chart,
\* the run gets no further than the load step of the chart, where it fails with
\* KeyError (SchemaError) naming a missing column: the figure of the chart is
\* never created and no artifact of the chart is written.
C7_MissingColumnFailsAtLoad ==
    \A chart \in Charts :
        (/\ FileOf(chart) \in DOMAIN header
         /\ ~(RequiredOf(chart) \subseteq header[FileOf(chart)])) =>
            /\ ~HasFigure(chart)
            /\ ArtifactsOf(chart) \cap Touched = {}
            /\ pc \in UpToLoad(chart) \cup {"failed"}
            /\ pc = "failed" => error.at \in UpToLoad(chart)
            /\ FailedAt(LoadStepOf(chart)) =>
                  /\ error.kind = "KeyError"
                  /\ error.msg \in RequiredOf(chart) \ header[FileOf(chart)]

\* The BLER table lacks a column and the run has failed loading it.
C7_Witness ==
    /\ FailedAt("bler_load")
    /\ error.kind = "KeyError"
    /\ ~(RequiredOf("bler") \subseteq header[bler_file])

---------------------------------------------------------------------------
(* C8  Step ordering                                                       *)

RsSteps ==
    <<"makedirs", "ber_locate", "extract", "ber_load", "ber_render", "ber_png",
      "ber_svg", "bler_locate", "bler_load", "bler_render", "bler_png", "bler_svg">>

NscSteps == <<"makedirs", "nsc_load", "nsc_render", "nsc_png", "nsc_svg">>

StepsOfRun == IF pipeline = "rs" THEN RsSteps ELSE NscSteps

\* C8: the steps of a run complete in the order locate, extract, load, render,
\* write .png, write .svg per chart, the whole BER chart before the BLER input
\* is located; a run that ends normally has completed every step once and has
\* written exactly rs_ber_graph.png/.svg and rs_bler_graph.png/.svg
\* (Reed-Solomon) or exactly nsc_ber_graph.png/.svg (convolutional).
C8_StepOrderAndArtifacts ==
    /\ IsPrefix(trace, StepsOfRun)
    /\ pc \notin {"done", "failed"} =>
          (Len(trace) < Len(StepsOfRun) /\ pc = StepsOfRun[Len(trace) + 1])
    /\ pc = "done" =>
          /\ trace = StepsOfRun
          /\ WrittenBy(disk, run) =
                (IF pipeline = "rs"
                 THEN {"images/rs_ber_graph.png", "images/rs_ber_graph.svg",
                       "images/rs_bler_graph.png", "images/rs_bler_graph.svg"}
                 ELSE {"images/nsc_ber_graph.png", "images/nsc_ber_graph.svg"})
          /\ Touched = WrittenBy(disk, run)

\* A Reed-Solomon run has ended normally.
C8_Witness == pipeline = "rs" /\ pc = "done" /\ Len(figures) = 2

---------------------------------------------------------------------------
(* C9  Rerun idempotence of the artifact writer                            *)

\* C9: images/ is a directory whenever an artifact is about to be written,
\* whether or not it existed at the start; that it already exists is never an
\* error (makedirs fails only on a non-directory of that name); and a second run
\* on the same inputs does not fail on anything the first left behind (only a
\* failing write can stop it), rewrites every artifact of the script at the
\* same path, and ends with the same set of files as the first.
C9_RerunIdempotent ==
    /\ pc \in {"ber_png", "ber_svg", "bler_png", "bler_svg", "nsc_png", "nsc_svg"}
          => images = "dir"
    /\ Done("makedirs") => images = "dir"
    /\ FailedAt("makedirs") => images = "file"
    /\ (run > 1 /\ pc = "failed") =>
          (error.kind = "OSError" /\ Target(error.at) # {})
    /\ (run > 1 /\ pc = "done") =>
          /\ Existing(disk) = prev
          /\ \A p \in (IF pipeline = "rs" THEN RsArtifacts ELSE NscArtifacts) :
                disk[p] = Content(run, FigureOf(IF p \in {BerPng, BerSvg} THEN "ber"
                                                ELSE IF p \in {BlerPng, BlerSvg} THEN "bler"
                                                ELSE "nsc"))

\* A second run has ended normally over the files the first one left.
C9_Witness == run = 2 /\ pc = "done" /\ prev # {}

---------------------------------------------------------------------------
(* C10  One extraction, from the BER file, for both charts                 *)

Count(step) == Cardinality({i \in DOMAIN trace : trace[i] = step})

\* C10: the Reed-Solomon script extracts (m, N, K) once, from the path of the
\* selected BER file; the label and the annotation of the BLER chart equal those
\* of the BER chart whatever the two selected files are called, so the name of
\* the BLER file has no influence on them.
C10_BlerChartShowsBerParams ==
    /\ Count("extract") <= 1
    /\ Done("extract") => params = extract_params(ber_file)
    /\ HasFigure("bler") =>
          /\ HasFigure("ber")
          /\ FigureOf("bler").labels = FigureOf("ber").labels
          /\ FigureOf("bler").annotations = FigureOf("ber").annotations
          /\ FigureOf("bler").labels[1] = RsLabel(extract_params(ber_file))
          /\ FigureOf("bler").annotations = <<RsAnnotation(extract_params(ber_file))>>

\* The BLER chart is rendered from a file whose name carries other parameters
\* than the name of the BER file.
C10_Witness ==
    /\ HasFigure("bler")
    /\ extract_params(bler_file) # extract_params(ber_file)
    /\ extract_params(bler_file) # NoneTriple

============================================================================
